---- MODULE Spec2Model ----
(***************************************************************************)
(* A model of src/server.py: a socketserver.TCPServer bound to port 8000   *)
(* that serves the working directory through                               *)
(* http.server.SimpleHTTPRequestHandler, one connection at a time, until   *)
(* the process is interrupted.                                             *)
(*                                                                         *)
(* A request path is a sequence of characters.  The characters that matter *)
(* are "/", ".", the escapes "%2e" and "%2f", and three one-letter file    *)
(* names; a path segment is the concatenation of its characters, so two    *)
(* dots in a row are the segment "..".                                     *)
(***************************************************************************)
EXTENDS Integers, Sequences, FiniteSets, TLC

\* ------------------------------------------------------------ bounds
\* Longest enumerated request path, in characters (handler specification).
MaxPathLen == 4
\* Longest enumerated request path under the server-loop specification.
ServerPathLen == 1
\* Number of client connections the server-loop specification follows.
MaxConns == 3

\* ------------------------------------------------------ program constants
PORT == 8000

\* ------------------------------------------------------------ the file system
\* A location is the sequence of names from the file system's top directory.
\* documentRoot is the working directory the process was started in.
documentRoot == <<"srv", "www">>

NoLoc == <<>>

FileNode(bytes) == [kind |-> "file", bytes |-> bytes, target |-> NoLoc]
DirNode         == [kind |-> "dir",  bytes |-> <<>>,  target |-> NoLoc]
LinkNode(to)    == [kind |-> "link", bytes |-> <<>>,  target |-> to]

\* Two snapshots of the disk.  In both a file named s lies one directory
\* above documentRoot.  In "full" documentRoot holds its own s, a directory d
\* (with an index.html and a file s) and a symbolic link l to the s above the
\* root; in "bare" it holds only an empty directory d.
Above == (<<"srv">> :> DirNode) @@ (<<"srv", "s">> :> FileNode(<<7, 7, 7>>))
             @@ (<<"srv", "www">> :> DirNode)

FullDisk == Above
             @@ (<<"srv", "www", "s">> :> FileNode(<<1, 2>>))
             @@ (<<"srv", "www", "d">> :> DirNode)
             @@ (<<"srv", "www", "d", "s">> :> FileNode(<<3>>))
             @@ (<<"srv", "www", "d", "index.html">> :> FileNode(<<4, 5>>))
             @@ (<<"srv", "www", "l">> :> LinkNode(<<"srv", "s">>))

BareDisk == Above @@ (<<"srv", "www", "d">> :> DirNode)

FileSystems == {FullDisk, BareDisk}

IsPrefix(p, q) == Len(p) <= Len(q) /\ SubSeq(q, 1, Len(p)) = p

Parent(loc) == IF loc = <<>> THEN <<>> ELSE SubSeq(loc, 1, Len(loc) - 1)

\* What the operating system makes of a path string, component by component:
\* ".." steps to the parent, a symbolic link is followed, and a component
\* below something that is not a directory does not exist (NoLoc).
RECURSIVE Walk(_, _, _, _)
Walk(disk, at, comps, i) ==
    IF i > Len(comps) THEN at
    ELSE IF comps[i] = ".." THEN Walk(disk, Parent(at), comps, i + 1)
    ELSE IF comps[i] = "." THEN Walk(disk, at, comps, i + 1)
    ELSE LET next == Append(at, comps[i]) IN
         IF next \notin DOMAIN disk THEN NoLoc
         ELSE IF disk[next].kind = "link"
              THEN IF disk[next].target \in DOMAIN disk
                   THEN (IF i < Len(comps) /\ disk[disk[next].target].kind # "dir"
                         THEN NoLoc
                         ELSE Walk(disk, disk[next].target, comps, i + 1))
                   ELSE NoLoc
              ELSE IF i < Len(comps) /\ disk[next].kind # "dir" THEN NoLoc
              ELSE Walk(disk, next, comps, i + 1)

\* The location a translated path names on disk: the path's components are
\* walked from the top directory.  A trailing slash names a directory only.
Resolve(disk, tp) ==
    LET loc == Walk(disk, <<>>, tp.comps, 1) IN
    IF loc = NoLoc THEN NoLoc
    ELSE IF tp.slash /\ disk[loc].kind # "dir" THEN NoLoc
    ELSE loc

isdir(disk, tp)  == Resolve(disk, tp) # NoLoc /\ disk[Resolve(disk, tp)].kind = "dir"
isfile(disk, tp) == Resolve(disk, tp) # NoLoc /\ disk[Resolve(disk, tp)].kind = "file"

\* ------------------------------------------------------------ request paths
PathChars == {"/", ".", "%2e", "%2f", "s", "d", "l"}

\* urllib.parse.unquote: every escape becomes the character it encodes.
unquoteChar(c) == IF c = "%2e" THEN "." ELSE IF c = "%2f" THEN "/" ELSE c
unquote(path) == [i \in 1..Len(path) |-> unquoteChar(path[i])]

\* str.split('/'): the segments between the slashes, empty ones included.
RECURSIVE SplitFrom(_, _, _)
SplitFrom(chars, i, cur) ==
    IF i > Len(chars) THEN <<cur>>
    ELSE IF chars[i] = "/" THEN <<cur>> \o SplitFrom(chars, i + 1, "")
    ELSE SplitFrom(chars, i + 1, cur \o chars[i])
split(chars) == SplitFrom(chars, 1, "")

\* '/'.join(comps), as a sequence of characters and whole segments.
RECURSIVE join(_)
join(comps) ==
    IF comps = <<>> THEN <<>>
    ELSE IF Len(comps) = 1 THEN <<comps[1]>>
    ELSE <<comps[1], "/">> \o join(Tail(comps))

startswith(chars, n) == Len(chars) >= n /\ \A i \in 1..n : chars[i] = "/"

\* posixpath.normpath's loop over the components.
RECURSIVE NormComps(_, _, _, _)
NormComps(comps, i, initial_slashes, new_comps) ==
    IF i > Len(comps) THEN new_comps
    ELSE LET comp == comps[i] IN
         IF comp \in {"", "."}
         THEN NormComps(comps, i + 1, initial_slashes, new_comps)
         ELSE IF \/ comp # ".."
                 \/ (initial_slashes = 0 /\ new_comps = <<>>)
                 \/ (new_comps # <<>> /\ new_comps[Len(new_comps)] = "..")
         THEN NormComps(comps, i + 1, initial_slashes, Append(new_comps, comp))
         ELSE IF new_comps # <<>>
         THEN NormComps(comps, i + 1, initial_slashes,
                        SubSeq(new_comps, 1, Len(new_comps) - 1))
         ELSE NormComps(comps, i + 1, initial_slashes, new_comps)

\* posixpath.normpath: one or exactly two leading slashes are kept, empty and
\* "." components go, and "x/.." pairs cancel; ".." stays only at the head of
\* a relative path.
normpath(chars) ==
    IF chars = <<>> THEN <<".">>
    ELSE LET initial_slashes ==
                 IF startswith(chars, 2) /\ ~startswith(chars, 3) THEN 2
                 ELSE IF startswith(chars, 1) THEN 1 ELSE 0
             body == join(NormComps(split(chars), 1, initial_slashes, <<>>))
             path == [i \in 1..initial_slashes |-> "/"] \o body
         IN  IF path = <<>> THEN <<".">> ELSE path

\* Variant of JoinWords that joins every non-empty word, "." and ".." too.
RECURSIVE JoinWords_unfiltered(_, _, _)
JoinWords_unfiltered(words, i, path) ==
    IF i > Len(words) THEN path
    ELSE IF words[i] = "" THEN JoinWords_unfiltered(words, i + 1, path)
    ELSE JoinWords_unfiltered(words, i + 1, Append(path, words[i]))

\* translate_path's loop: every word that is not a plain name is skipped.
RECURSIVE JoinWords(_, _, _)
JoinWords(words, i, path) ==
    IF i > Len(words) THEN path
    ELSE IF words[i] \in {"", ".", ".."} THEN JoinWords(words, i + 1, path)
    ELSE JoinWords(words, i + 1, Append(path, words[i]))

\* SimpleHTTPRequestHandler.translate_path: the file-system path of a request
\* path, as its components from the top directory and whether it ends in "/".
\* The trailing slash is read off the raw path, before the escapes are decoded.
translate_path(path) ==
    [comps |-> JoinWords(split(normpath(unquote(path))), 1, documentRoot),
     slash |-> path[Len(path)] = "/"]

\* ------------------------------------------------------------ requests
SupportedCommands == {"GET", "HEAD"}
Commands == {"GET", "HEAD", "POST", "PUT"}

\* The request paths the spec names: GET /../s, /../../s, /%2e%2e/s, /d/../../s.
ExamplePaths ==
    { <<"/", ".", ".", "/", "s">>,
      <<"/", ".", ".", "/", ".", ".", "/", "s">>,
      <<"/", "%2e", "%2e", "/", "s">>,
      <<"/", "d", "/", ".", ".", "/", ".", ".", "/", "s">> }

\* The request line ends in a version ("GET /s HTTP/1.0") or, in the HTTP/0.9
\* form, has only a command and a path ("GET /s").
Versions == {"HTTP/1.0", "HTTP/0.9"}

\* A request as the handler reads it off the connection.  syntax: "ok" for a
\* request line of two or three words, "bad" for one parse_request rejects
\* for its number of words (one word: still HTTP/0.9; four, the last a
\* version), "eof" when the client closes without sending a line.  ims: "fresh" when the request carries an If-Modified-Since date not
\* older than the file (and no If-None-Match), "none" otherwise.
Request(c, p, m, v) ==
    [syntax |-> "ok", command |-> c, path |-> p, ims |-> m, version |-> v]
NoReq ==
    [syntax |-> "none", command |-> "", path |-> <<>>, ims |-> "none",
     version |-> "HTTP/1.0"]
BadRequestLine == [NoReq EXCEPT !.syntax = "bad"]
ClosedEarly == [NoReq EXCEPT !.syntax = "eof"]

\* The conditional header is drawn only for the requests that look at it.
ImsChoices(c, v) ==
    IF c \in SupportedCommands /\ v # "HTTP/0.9" THEN {"none", "fresh"} ELSE {"none"}

\* What the operating system answers when the handler opens, lists or reads:
\* "ok", "eacces" (open and listdir raise PermissionError) or "eio" (the file
\* opens, reading it raises OSError).
IoOutcomes == {"ok", "eacces", "eio"}

\* ------------------------------------------------------------ responses
NoPath == [comps |-> <<>>, slash |-> FALSE]

\* status: the status line sent (0: nothing was sent); clen: the
\* Content-Length header (-1: none); body: the bytes after the headers;
\* path: the file-system path send_head settled on; opened: the location
\* whose bytes or entries the handler asked the operating system for;
\* exc: the exception the handler raised to its caller.
Response(status, clen, body, path, opened, exc) ==
    [status |-> status, clen |-> clen, body |-> body, path |-> path,
     opened |-> opened, exc |-> exc]

NoResp == Response(-1, -1, <<>>, NoPath, NoLoc, "none")

\* The page send_error and list_directory generate.
GeneratedPage == <<0>>

\* send_error(code): an error page with its length, for every command but HEAD.
send_error(code, command, path) ==
    Response(code, Len(GeneratedPage),
             IF command = "HEAD" THEN <<>> ELSE GeneratedPage, path, NoLoc, "none")

\* parse_request's treatment of self.path: leading "//" becomes a single "/".
RECURSIVE lstrip(_)
lstrip(path) == IF path # <<>> /\ path[1] = "/" THEN lstrip(Tail(path)) ELSE path
request_path(path) == IF startswith(path, 2) THEN <<"/">> \o lstrip(path) ELSE path

\* Variant of copyfile that copies nothing, as do_HEAD does.
copyfile_headers_only(head, bytes, io) == head

\* shutil.copyfileobj(source, outputfile) for do_GET: the file's bytes, or
\* OSError out of the first read with nothing copied.
copyfile(head, bytes, io) ==
    IF io = "eio" THEN [head EXCEPT !.exc = "OSError"]
    ELSE [head EXCEPT !.body = bytes]

\* list_directory(path): the generated listing, or 404 when listdir raises.
list_directory(disk, tp, command, io) ==
    IF io = "eacces" THEN send_error(404, command, tp)
    ELSE Response(200, Len(GeneratedPage),
                  IF command = "HEAD" THEN <<>> ELSE GeneratedPage,
                  tp, Resolve(disk, tp), "none")

\* Variant of open_failed that answers 403 Forbidden.
open_failed_forbidden(command, tp) == send_error(403, command, tp)

\* send_head's "except OSError" around open(): the file is reported missing.
open_failed(command, tp) == send_error(404, command, tp)

\* send_head from "ctype = self.guess_type(path)" on, then do_GET's copy or
\* do_HEAD's close: path is the file to serve.
serve_file(disk, tp, r, io) ==
    IF tp.slash THEN send_error(404, r.command, tp)
    ELSE LET loc == Resolve(disk, tp) IN
         IF loc = NoLoc \/ io = "eacces" THEN open_failed(r.command, tp)
         ELSE IF r.ims = "fresh" THEN Response(304, -1, <<>>, tp, loc, "none")
         ELSE LET head == Response(200, Len(disk[loc].bytes), <<>>, tp, loc, "none") IN
              IF r.command = "GET" THEN copyfile(head, disk[loc].bytes, io) ELSE head

\* send_head and its caller, do_GET or do_HEAD.
send_head(disk, r, io) ==
    LET tp == translate_path(request_path(r.path)) IN
    IF isdir(disk, tp)
    THEN IF ~tp.slash
         THEN Response(301, 0, <<>>, tp, NoLoc, "none")
         ELSE LET index == [comps |-> Append(tp.comps, "index.html"), slash |-> FALSE] IN
              IF isfile(disk, index) THEN serve_file(disk, index, r, io)
              ELSE list_directory(disk, tp, r.command, io)
    ELSE serve_file(disk, tp, r, io)

\* Variant of has_method in which every command has a do_ method.
has_method_any(command) == TRUE

\* hasattr(self, 'do_' + self.command)
has_method(command) == command \in SupportedCommands

\* send_response_only, send_header and end_headers write nothing while
\* request_version is HTTP/0.9: such a request gets the body alone.
as_sent(version, response) ==
    IF version = "HTTP/0.9" THEN [response EXCEPT !.status = 0, !.clen = -1]
    ELSE response

\* BaseHTTPRequestHandler.handle_one_request; parse_request refuses an
\* HTTP/0.9 request line whose command is not GET, before self.command is set.
handle_one_request(disk, r, io) ==
    IF r.syntax = "eof" THEN Response(0, -1, <<>>, NoPath, NoLoc, "none")
    ELSE IF r.syntax = "bad" THEN as_sent(r.version, send_error(400, "", NoPath))
    ELSE IF r.version = "HTTP/0.9" /\ r.command # "GET"
    THEN as_sent(r.version, send_error(400, "", NoPath))
    ELSE IF ~has_method(r.command) THEN send_error(501, r.command, NoPath)
    ELSE as_sent(r.version, send_head(disk, r, io))

\* The system calls whose outcome matters are made only when the handler
\* gets as far as opening or listing something.
IoChoices(disk, r) ==
    IF handle_one_request(disk, r, "ok").opened = NoLoc THEN {"ok"} ELSE IoOutcomes

\* ------------------------------------------------------------ the process
VARIABLES
    pc,        \* where the script is: "start", "bound" (inside the with block,
               \* before print), "serving" (serve_forever waits in select),
               \* "handling" (the handler runs), "finishing" (the handler has
               \* returned or raised), "exited"
    sock,      \* the listening socket: "none", "listening", "closed"
    stdout,    \* the lines printed
    uncaught,  \* the exception the process ended with, "none" before
    exitCode,  \* the exit status, -1 while the process runs
    disk,      \* the file system
    nconn,     \* the number of clients that have connected
    backlog,   \* connections completed by the kernel, not yet accepted
    accepted,  \* the connections accept() has returned, in order
    conn,      \* the connection being handled, 0 when none
    req,       \* the request read from conn
    io,        \* the operating system's answer to the handler's file calls
    resp,      \* what the handler wrote to conn
    served,    \* the connections handled and closed, in order
    errors     \* the connections for which handle_error logged a traceback

vars == <<pc, sock, stdout, uncaught, exitCode, disk, nconn, backlog, accepted,
          conn, req, io, resp, served, errors>>

\* TCPServer.request_queue_size: the listen() backlog.
request_queue_size == 5

Init ==
    /\ pc = "start"
    /\ sock = "none"
    /\ stdout = <<>>
    /\ uncaught = "none"
    /\ exitCode = -1
    /\ disk \in FileSystems
    /\ nconn = 0
    /\ backlog = <<>>
    /\ accepted = <<>>
    /\ conn = 0
    /\ req = NoReq
    /\ io = "ok"
    /\ resp = NoResp
    /\ served = <<>>
    /\ errors = {}

\* Variant of with_exit for a server created without the with statement.
with_exit_leak(s) == s

\* The with statement's __exit__: server_close() closes the listening socket.
with_exit(s) == IF s = "listening" THEN "closed" ELSE s

\* Variant of exit_status in which KeyboardInterrupt is swallowed.
exit_status_zero(exc) == IF exc = "KeyboardInterrupt" THEN 0 ELSE 1

\* The status the interpreter exits with when exc reaches the top level:
\* 1 after a traceback, and 128 + SIGINT for KeyboardInterrupt, which the
\* interpreter turns back into the signal.
exit_status(exc) == IF exc = "KeyboardInterrupt" THEN 130 ELSE 1

\* The process ends with exc uncaught, leaving the with block if it is in it.
Die(exc) ==
    /\ pc' = "exited"
    /\ uncaught' = exc
    /\ exitCode' = exit_status(exc)
    /\ sock' = with_exit(sock)

\* Line 8, TCPServer(("", PORT), Handler): socket, bind and listen succeed.
BindOK ==
    /\ pc = "start"
    /\ pc' = "bound"
    /\ sock' = "listening"
    /\ UNCHANGED <<stdout, uncaught, exitCode, disk, nconn, backlog, accepted,
                   conn, req, io, resp, served, errors>>

\* Line 8: bind raises OSError (port in use, no permission); the constructor
\* closes the socket and the exception ends the script.
BindFail ==
    /\ pc = "start"
    /\ pc' = "exited"
    /\ sock' = "closed"
    /\ uncaught' = "OSError"
    /\ exitCode' = exit_status("OSError")
    /\ UNCHANGED <<stdout, disk, nconn, backlog, accepted, conn, req, io, resp,
                   served, errors>>

\* Variant of PrintStartup with the print inside the loop.
PrintStartup_in_loop ==
    /\ pc \in {"bound", "serving"}
    /\ Len(stdout) < 2
    /\ stdout' = Append(stdout, [text |-> "serving at port", port |-> PORT])
    /\ pc' = "serving"
    /\ UNCHANGED <<sock, uncaught, exitCode, disk, nconn, backlog, accepted,
                   conn, req, io, resp, served, errors>>

\* Line 9, print("serving at port", PORT), then line 10 enters serve_forever.
PrintStartup ==
    /\ pc = "bound"
    /\ stdout' = Append(stdout, [text |-> "serving at port", port |-> PORT])
    /\ pc' = "serving"
    /\ UNCHANGED <<sock, uncaught, exitCode, disk, nconn, backlog, accepted,
                   conn, req, io, resp, served, errors>>

\* A client connects: the kernel completes the handshake and queues the
\* connection, whatever the process is doing.
ClientConnect(max) ==
    /\ sock = "listening"
    /\ nconn < max
    /\ Len(backlog) < request_queue_size
    /\ nconn' = nconn + 1
    /\ backlog' = Append(backlog, nconn + 1)
    /\ UNCHANGED <<pc, sock, stdout, uncaught, exitCode, disk, accepted, conn,
                   req, io, resp, served, errors>>

\* Variant of loop_idle for a server that hands each connection to a thread.
loop_idle_threaded == pc \in {"serving", "handling", "finishing"}

\* serve_forever is free to accept: it is in select, not inside
\* process_request, which TCPServer runs to its end in the loop's own thread.
loop_idle == pc = "serving"

\* serve_forever: select reports the socket readable, get_request accepts.
Accept ==
    /\ loop_idle
    /\ sock = "listening"
    /\ backlog # <<>>
    /\ conn' = Head(backlog)
    /\ backlog' = Tail(backlog)
    /\ accepted' = Append(accepted, Head(backlog))
    /\ pc' = "handling"
    /\ UNCHANGED <<sock, stdout, uncaught, exitCode, disk, nconn, req, io, resp,
                   served, errors>>

\* finish_request: the handler reads request r and answers it; o is what the
\* operating system answers the handler's file calls.
Handle(r, o) ==
    /\ pc = "handling"
    /\ o \in IoChoices(disk, r)
    /\ req' = r
    /\ io' = o
    /\ resp' = handle_one_request(disk, r, o)
    /\ pc' = "finishing"
    /\ UNCHANGED <<sock, stdout, uncaught, exitCode, disk, nconn, backlog,
                   accepted, conn, served, errors>>

\* The handler runs on whatever the client sends: a request for a path of up
\* to n characters or for one of the example paths, a malformed request line,
\* or nothing at all.
HandleAny(n) ==
    /\ pc = "handling"
    /\ \/ \E k \in 1..n : \E p \in [1..k -> PathChars] : \E c \in Commands :
              \E v \in Versions : \E m \in ImsChoices(c, v) : \E o \in IoOutcomes :
                  Handle(Request(c, p, m, v), o)
       \/ \E p \in ExamplePaths : \E c \in Commands :
              \E v \in Versions : \E m \in ImsChoices(c, v) : \E o \in IoOutcomes :
                  Handle(Request(c, p, m, v), o)
       \/ \E r \in {BadRequestLine, [BadRequestLine EXCEPT !.version = "HTTP/0.9"],
                    ClosedEarly} : Handle(r, "ok")

\* Variant of propagates for a loop without the except clauses.
propagates_all(exc) == exc # "none"

\* _handle_request_noblock's "except Exception": every exception a handler
\* raises is one; only a BaseException goes on to the loop's caller.
propagates(exc) == exc \notin {"none", "OSError", "ValueError"}

\* Variant of ShutdownRequest for handle_request() in place of
\* serve_forever(): the script ends after the first connection.
ShutdownRequest_then_return ==
    /\ pc = "finishing"
    /\ pc' = "exited"
    /\ exitCode' = 0
    /\ sock' = with_exit(sock)
    /\ served' = Append(served, conn)
    /\ conn' = 0
    /\ req' = NoReq
    /\ io' = "ok"
    /\ resp' = NoResp
    /\ UNCHANGED <<stdout, uncaught, disk, nconn, backlog, accepted, errors>>

\* _handle_request_noblock after finish_request: handle_error logs a raised
\* exception, shutdown_request closes the connection, and the loop goes on.
ShutdownRequest ==
    /\ pc = "finishing"
    /\ IF propagates(resp.exc)
       THEN /\ Die(resp.exc)
            /\ UNCHANGED <<stdout, disk, nconn, backlog, accepted, conn, req,
                           io, resp, served, errors>>
       ELSE /\ pc' = "serving"
            /\ served' = Append(served, conn)
            /\ errors' = IF resp.exc = "none" THEN errors ELSE errors \cup {conn}
            /\ conn' = 0
            /\ req' = NoReq
            /\ io' = "ok"
            /\ resp' = NoResp
            /\ UNCHANGED <<sock, stdout, uncaught, exitCode, disk, nconn,
                           backlog, accepted>>

\* SIGINT: KeyboardInterrupt is raised wherever the script is; a connection
\* being handled is closed, the with block is left and the process ends.
Interrupt ==
    /\ pc # "exited"
    /\ Die("KeyboardInterrupt")
    /\ conn' = 0
    /\ req' = NoReq
    /\ io' = "ok"
    /\ resp' = NoResp
    /\ UNCHANGED <<stdout, disk, nconn, backlog, accepted, served, errors>>

\* The server loop, following MaxConns connections.
Next ==
    \/ BindOK
    \/ BindFail
    \/ PrintStartup
    \/ ClientConnect(MaxConns)
    \/ Accept
    \/ HandleAny(ServerPathLen)
    \/ ShutdownRequest
    \/ Interrupt

Spec == Init /\ [][Next]_vars

\* One connection, any request path up to MaxPathLen characters.
HandlerNext ==
    \/ BindOK
    \/ PrintStartup
    \/ ClientConnect(1)
    \/ Accept
    \/ HandleAny(MaxPathLen)
    \/ ShutdownRequest

HandlerSpec == Init /\ [][HandlerNext]_vars

\* ------------------------------------------------------------ properties
\* The handler has answered req; resp is its answer.
Answered == pc = "finishing" /\ req.syntax = "ok"

\* The request line carried an HTTP/1.x version, so the answer has a status
\* line and headers.
Versioned == req.version # "HTTP/0.9"

\* Where the decoded request path would lead if every ".." in it were
\* honoured, starting from documentRoot.
RECURSIVE Climb(_, _, _)
Climb(at, segs, i) ==
    IF i > Len(segs) THEN at
    ELSE IF segs[i] \in {"", "."} THEN Climb(at, segs, i + 1)
    ELSE IF segs[i] = ".." THEN Climb(Parent(at), segs, i + 1)
    ELSE Climb(Append(at, segs[i]), segs, i + 1)

\* The request path would resolve outside documentRoot.
Escapes(path) == ~IsPrefix(documentRoot, Climb(documentRoot, split(unquote(path)), 1))

\* A path is lexically inside documentRoot: it starts with documentRoot and
\* goes on with plain names.
LexicallyInside(tp) ==
    /\ IsPrefix(documentRoot, tp.comps)
    /\ \A i \in 1..Len(tp.comps) : tp.comps[i] \notin {"", ".", ".."}

\* One of the path's components below documentRoot is a symbolic link.
ThroughLink(tp) ==
    \E k \in (Len(documentRoot) + 1)..Len(tp.comps) :
        /\ SubSeq(tp.comps, 1, k) \in DOMAIN disk
        /\ disk[SubSeq(tp.comps, 1, k)].kind = "link"

\* C1, as stated: whatever the request path, the location the handler opens
\* lies inside documentRoot.
C1_OpensOnlyInsideRoot ==
    Answered /\ resp.opened # NoLoc => IsPrefix(documentRoot, resp.opened)

\* C1, amended: whatever the request path (".." segments, percent-encoded
\* ones), the path the handler resolves is documentRoot followed by plain
\* names, and a location outside documentRoot is opened only through a
\* symbolic link kept inside documentRoot.
C1_TraversalImpossible ==
    Answered =>
        /\ resp.path # NoPath => LexicallyInside(resp.path)
        /\ resp.opened # NoLoc =>
               /\ resp.path # NoPath
               /\ resp.opened = Resolve(disk, resp.path)
               /\ IsPrefix(documentRoot, resp.opened) \/ ThroughLink(resp.path)

\* A GET whose path holds a percent-encoded ".." and would leave documentRoot
\* was answered with the bytes of the file of that name inside documentRoot.
C1_Witness ==
    /\ Answered
    /\ Versioned
    /\ req.command = "GET"
    /\ Escapes(req.path)
    /\ \E i \in 1..Len(req.path) : req.path[i] = "%2e"
    /\ resp.opened = documentRoot \o <<"s">>
    /\ resp.body = <<1, 2>>

\* C2, as stated: a request whose path would resolve outside documentRoot is
\* answered 400 or 403.
C2_EscapeRejected ==
    Answered /\ Escapes(req.path) => resp.status \in {400, 403}

\* C2, amended: a request whose path would resolve outside documentRoot is
\* never answered 400 or 403 for its path; it is answered as the request for
\* the path with the escaping ".." segments dropped: an HTTP/1.x GET or HEAD
\* gets 200, 301, 304 or 404 for a path lexically inside documentRoot (404
\* when nothing of that name is inside the root, whatever lies above it),
\* any other HTTP/1.x command 501.
C2_EscapeClamped ==
    Answered /\ Escapes(req.path) =>
        /\ resp.status \notin {400, 403}
        /\ resp.path # NoPath => LexicallyInside(resp.path)
        /\ (Versioned /\ has_method(req.command)) =>
               /\ resp.status \in {200, 301, 304, 404}
               /\ resp.path # NoPath
               /\ Resolve(disk, resp.path) = NoLoc => resp.status = 404
        /\ (Versioned /\ ~has_method(req.command)) => resp.status = 501

\* GET /../s was answered 404 on the disk that has s above documentRoot and
\* not inside it.
C2_Witness ==
    /\ Answered
    /\ Versioned
    /\ req.command = "GET"
    /\ req.path = <<"/", ".", ".", "/", "s">>
    /\ <<"srv", "s">> \in DOMAIN disk
    /\ documentRoot \o <<"s">> \notin DOMAIN disk
    /\ resp.status = 404

\* C3: once the socket is bound the loop never stops on its own: the process
\* ends only by an interrupt, and after each connection the loop is back in
\* select with the socket listening.
C3_LoopNeverStops ==
    [][/\ (sock = "listening" /\ pc' = "exited") => uncaught' = "KeyboardInterrupt"
       /\ served' # served => (pc' = "serving" /\ sock' = "listening")
       /\ (pc = "finishing" /\ pc' \notin {"finishing", "exited"}) =>
              (pc' = "serving" /\ served' = Append(served, conn))]_vars

\* A third connection was accepted after two were served.
C3_Witness == Len(served) = 2 /\ pc = "handling" /\ sock = "listening"

\* C4, as stated: every per-request error is caught at the handler boundary
\* and turned into an HTTP response: no exception leaves the handler.
C4_CaughtAtHandler == pc = "finishing" => resp.exc = "none"

\* C4, amended: no per-request error ends the process or stops the loop.  A
\* malformed request line is answered 400, an unsupported command 501, a
\* missing or unopenable file 404 (an HTTP/0.9 request line gets the error
\* page alone); a read failure while the body is copied leaves the handler
\* as an exception after the 200 header went out, is logged by the loop, and
\* the loop goes on.  The process ends only by a bind failure, before any
\* connection, or by an interrupt.
C4_ErrorsNeverStopServer ==
    /\ pc = "exited" =>
           /\ uncaught \in {"OSError", "KeyboardInterrupt"}
           /\ uncaught = "OSError" => accepted = <<>>
    /\ (pc # "exited" /\ errors # {}) => sock = "listening"
    /\ errors \subseteq {served[i] : i \in 1..Len(served)}
    /\ (pc = "finishing" /\ Versioned) =>
           /\ req.syntax = "bad" => (resp.status = 400 /\ resp.exc = "none")
           /\ (req.syntax = "ok" /\ ~has_method(req.command)) =>
                  (resp.status = 501 /\ resp.exc = "none")
           /\ (req.syntax = "ok" /\ has_method(req.command) /\ io = "eacces") =>
                  (resp.status = 404 /\ resp.exc = "none")
           /\ resp.exc # "none" => resp.status = 200
    /\ (pc = "finishing" /\ ~Versioned /\ req.syntax \in {"ok", "bad"}) =>
           /\ resp.status = 0
           /\ (req.syntax = "bad" \/ req.command # "GET" \/ io = "eacces") =>
                  (resp.body = GeneratedPage /\ resp.exc = "none")
    /\ (pc = "finishing" /\ resp.exc # "none") =>
           /\ resp.exc = "OSError"
           /\ req.command = "GET"
           /\ io = "eio"
           /\ resp.body = <<>>

\* After a connection whose handler raised, a later one got its file.
C4_Witness ==
    /\ errors # {}
    /\ pc = "finishing"
    /\ Versioned
    /\ resp.status = 200
    /\ resp.exc = "none"
    /\ resp.body # <<>>

\* C5, as stated: a command other than GET and HEAD is answered 405 and no
\* file is read.
C5_Unsupported405 ==
    Answered /\ req.command \notin {"GET", "HEAD"} =>
        (resp.status = 405 /\ resp.opened = NoLoc)

\* C5, amended: a command other than GET and HEAD is answered 501 when the
\* request line carries an HTTP/1.x version, and with the 400 error page
\* alone when it does not; no path is resolved and no file read for it.
C5_Unsupported501 ==
    Answered /\ req.command \notin {"GET", "HEAD"} =>
        /\ Versioned => resp.status = 501
        /\ ~Versioned => resp.status = 0
        /\ resp.body = GeneratedPage
        /\ resp.path = NoPath
        /\ resp.opened = NoLoc
        /\ resp.exc = "none"

\* A POST for an existing file was answered 501.
C5_Witness ==
    /\ Answered
    /\ Versioned
    /\ req.command = "POST"
    /\ req.path = <<"/", "s">>
    /\ documentRoot \o <<"s">> \in DOMAIN disk
    /\ resp.status = 501

\* The request is a GET for a readable regular file inside documentRoot.
GetsRegularFile ==
    LET tp == translate_path(request_path(req.path)) IN
    /\ Answered
    /\ req.command = "GET"
    /\ io = "ok"
    /\ isfile(disk, tp)
    /\ IsPrefix(documentRoot, Resolve(disk, tp))

\* The answer is 200 with the file's bytes and their count.
FileAnswer ==
    LET bytes == disk[Resolve(disk, translate_path(request_path(req.path)))].bytes IN
    /\ resp.status = 200
    /\ resp.body = bytes
    /\ resp.clen = Len(bytes)

\* C6, as stated: every GET for a readable regular file inside documentRoot
\* is answered 200 with the file's bytes and a matching Content-Length.
C6_FileServed == GetsRegularFile => FileAnswer

\* C6, amended: so is every such HTTP/1.x GET that carries no
\* If-Modified-Since date at or after the file's modification time; one that
\* does is answered 304 without a body, and an HTTP/0.9 GET gets the file's
\* bytes without status line or headers.
C6_FileServedUnlessNotModified ==
    /\ (GetsRegularFile /\ Versioned /\ req.ims = "none") => FileAnswer
    /\ (GetsRegularFile /\ Versioned /\ req.ims = "fresh") =>
           (resp.status = 304 /\ resp.body = <<>> /\ resp.clen = -1)
    /\ (GetsRegularFile /\ ~Versioned) =>
           /\ resp.status = 0
           /\ resp.clen = -1
           /\ resp.body = disk[Resolve(disk, resp.path)].bytes

\* GET /d/s was answered with that file.
C6_Witness ==
    /\ GetsRegularFile
    /\ Versioned
    /\ req.path = <<"/", "d", "/", "s">>
    /\ req.ims = "none"
    /\ resp.status = 200
    /\ resp.body = <<3>>
    /\ resp.clen = 1

\* The socket was bound successfully at some point.
WasBound == sock = "listening" \/ (sock = "closed" /\ uncaught # "OSError")

\* C7: the startup line, naming the port, is printed once, after the socket
\* is bound and before the loop accepts anything; after a bind failure it is
\* never printed and nothing is accepted.
C7_StartupMessageOnce ==
    /\ Len(stdout) <= 1
    /\ stdout # <<>> =>
           (WasBound /\ stdout[1] = [text |-> "serving at port", port |-> PORT])
    /\ pc \in {"serving", "handling", "finishing"} => Len(stdout) = 1
    /\ accepted # <<>> => Len(stdout) = 1
    /\ nconn > 0 /\ stdout = <<>> => accepted = <<>>
    /\ uncaught = "OSError" => (stdout = <<>> /\ accepted = <<>> /\ nconn = 0)

\* Two connections were accepted and the line is there once.
C7_Witness == Len(accepted) = 2 /\ Len(stdout) = 1

\* C8: when an interrupt ends the process after a successful bind, the
\* listening socket is closed: no exited state has it listening.
C8_SocketReleased ==
    pc = "exited" => (sock # "listening" /\ (stdout # <<>> => sock = "closed"))

\* The process was interrupted while a connection was being handled.
C8_Witness ==
    /\ pc = "exited"
    /\ uncaught = "KeyboardInterrupt"
    /\ Len(accepted) > Len(served)
    /\ sock = "closed"

\* C9, as stated: the exit status is 0 after an interrupt while serving and
\* non-zero after a bind failure.
C9_ExitCodes ==
    pc = "exited" =>
        /\ uncaught = "KeyboardInterrupt" => exitCode = 0
        /\ uncaught = "OSError" => exitCode # 0

\* C9, amended: the exit status is never 0: an interrupt ends the process
\* with KeyboardInterrupt uncaught (status 130), a bind failure with OSError
\* uncaught (status 1).
C9_ExitNonZero ==
    /\ pc # "exited" => exitCode = -1
    /\ pc = "exited" =>
           /\ exitCode # 0
           /\ uncaught = "KeyboardInterrupt" => exitCode = 130
           /\ uncaught = "OSError" => exitCode = 1

\* The process was interrupted while serving, after one connection.
C9_Witness ==
    /\ pc = "exited"
    /\ uncaught = "KeyboardInterrupt"
    /\ Len(served) = 1
    /\ exitCode = 130

\* C10: connections are handled one at a time and in the order accepted: at
\* most one accepted connection is not yet closed, it is the one being
\* handled, and while it is, later connections wait in the backlog.
C10_OneAtATime ==
    /\ Len(accepted) <= Len(served) + 1
    /\ served = SubSeq(accepted, 1, Len(served))
    /\ \A i \in 1..Len(accepted) : accepted[i] = i
    /\ conn # 0 <=> pc \in {"handling", "finishing"}
    /\ conn # 0 => (Len(accepted) = Len(served) + 1 /\ accepted[Len(accepted)] = conn)
    /\ \A i \in 1..Len(backlog) : backlog[i] = Len(accepted) + i

\* A second and a third client wait while the first connection's handler
\* has not read a request yet.
C10_Witness ==
    /\ pc = "handling"
    /\ conn = 1
    /\ backlog = <<2, 3>>
    /\ served = <<>>
====
